---- MODULE Spec2Model ----
(***************************************************************************)
(* Medical Data Analyzer (src/Desktop/project_summer/app.py).              *)
(*                                                                         *)
(* The program is a Streamlit script: every user interaction re-executes   *)
(* the whole script (the module-level import, then main()) with the        *)
(* current widget values, and at most one button reads True in a run.      *)
(* One action of the model is one such run ("render pass").  The state     *)
(* holds the widget values, the button pressed in the last pass, what the  *)
(* external ml_models functions did in that pass, and what the pass put    *)
(* on the page (out) and which external calls it evaluated (calls).        *)
(*                                                                         *)
(* Floats confidence and risk_score are fixed-point integers in units of   *)
(* 1/Scale (thousandths): 0.841 is 841, 0.7 is 700.                        *)
(* Text is modelled by strings, built with \o and ToString.                *)
(***************************************************************************)
EXTENDS Integers, Sequences, FiniteSets, TLC

VARIABLES
    env,             \* what `from ml_models import ...` does in this deployment
    page,            \* value of the sidebar radio
    family_history,  \* value of the "Family History of Diabetes" selectbox
    uploaded_file,   \* value of the file uploader ("" when nothing is uploaded)
    pressed,         \* the button that read True in the last pass ("none" if none)
    predicted,       \* what predict_diabetes did in the last pass
    sampled,         \* what create_sample_patient_data did in the last pass
    out,             \* the elements the last pass put on the page, in order
    calls,           \* the external call expressions the last pass evaluated
    uncaught         \* TRUE when the last pass ended in an uncaught exception

vars == <<env, page, family_history, uploaded_file, pressed, predicted, sampled,
          out, calls, uncaught>>

----------------------------------------------------------------------------
(* Bounds and units *)

\* fixed-point unit of confidence and risk_score: 1.0 is Scale
Scale == 1000

\* longest recommendation list the predictor returns in the model
MaxRecs == 3

\* how far below 0.0 and above 1.0 (in 1/Scale) a returned risk_score may lie
OverRange == 5

\* risk_score >= 0.7
HighThreshold == 700

\* risk_score >= 0.4
MediumThreshold == 400

----------------------------------------------------------------------------
(* Page elements *)

\* one st.<kind>(...) call: its kind and the strings it shows
El(kind, text) == [kind |-> kind, text |-> text]

DiabetesPage == "Diabetes Prediction"
DocumentPage == "Document Analysis"
AboutPage == "About"

Pages == {DiabetesPage, DocumentPage, AboutPage}

Buttons == {"predict", "sample", "analyze"}

PredictLabel == "Predict Diabetes Risk"
SampleLabel == "Test with Sample Data"
AnalyzeLabel == "Analyze Document"

HasElement(s, el) == \E i \in 1..Len(s) : s[i] = el

----------------------------------------------------------------------------
(* The import of ml_models (lines 12-15) *)

\* the names of `from ml_models import ...`, in the order they are bound
ImportNames == <<"predict_diabetes", "create_sample_patient_data">>

\* a deployment: whether importing ml_models finds the module ("ok"), does not
\* find it ("missing": ModuleNotFoundError, an ImportError) or raises some
\* other exception while it loads ("broken"), and the names the module defines
Envs ==
    {[module |-> "missing", exports |-> {}], [module |-> "broken", exports |-> {}]}
    \cup {[module |-> "ok", exports |-> x] :
            x \in SUBSET {ImportNames[i] : i \in 1..Len(ImportNames)}}

\* the import statement raises ImportError: no module, or a name it lacks
ImportRaises(e) ==
    \/ e.module = "missing"
    \/ e.module = "ok" /\ \E i \in 1..Len(ImportNames) : ImportNames[i] \notin e.exports

\* the import raises something `except ImportError` does not catch
ImportCrashes(e) == e.module = "broken"

\* Bound as if a failed import statement bound none of its names
Bound_all_or_nothing(e, name) ==
    /\ e.module = "ok"
    /\ \A j \in 1..Len(ImportNames) : ImportNames[j] \in e.exports

\* `from m import a, b` binds the names one by one, left to right, and stops at
\* the first one the module lacks: the names before it stay bound
Bound(e, name) ==
    /\ e.module = "ok"
    /\ \E k \in 1..Len(ImportNames) :
          /\ ImportNames[k] = name
          /\ \A j \in 1..k : ImportNames[j] \in e.exports

ImportNotice(e) ==
    IF ImportRaises(e)
    THEN <<El("error", <<"Missing dependencies. Please run: pip install -r requirements.txt">>)>>
    ELSE <<>>

----------------------------------------------------------------------------
(* The risk tier and the formatting (lines 129-155) *)

\* RiskLevel with the upper threshold exclusive (> 0.7 for >= 0.7)
RiskLevel_exclusive(risk_score) ==
    IF risk_score > HighThreshold
    THEN [risk_class |-> "risk-high", risk_level |-> "High Risk"]
    ELSE IF risk_score >= MediumThreshold
         THEN [risk_class |-> "risk-medium", risk_level |-> "Medium Risk"]
         ELSE [risk_class |-> "risk-low", risk_level |-> "Low Risk"]

\* RiskLevel with the High band closed at 1.0 (0.7 <= risk_score <= 1.0)
RiskLevel_banded(risk_score) ==
    IF risk_score >= HighThreshold /\ risk_score <= Scale
    THEN [risk_class |-> "risk-high", risk_level |-> "High Risk"]
    ELSE IF risk_score >= MediumThreshold
         THEN [risk_class |-> "risk-medium", risk_level |-> "Medium Risk"]
         ELSE [risk_class |-> "risk-low", risk_level |-> "Low Risk"]

\* the if/elif/else on risk_score: the CSS class and the label
RiskLevel(risk_score) ==
    IF risk_score >= HighThreshold
    THEN [risk_class |-> "risk-high", risk_level |-> "High Risk"]
    ELSE IF risk_score >= MediumThreshold
         THEN [risk_class |-> "risk-medium", risk_level |-> "Medium Risk"]
         ELSE [risk_class |-> "risk-low", risk_level |-> "Low Risk"]

\* n/d rounded to the nearest integer, ties to even (n >= 0, d > 0)
RoundHalfEven(n, d) ==
    LET q == n \div d
        r == n % d
    IN  IF 2 * r < d THEN q
        ELSE IF 2 * r > d THEN q + 1
        ELSE IF q % 2 = 0 THEN q ELSE q + 1

\* PercentFormat without the scaling by 100 (".1f" followed by "%")
PercentFormat_unscaled(x) ==
    LET mag == IF x < 0 THEN -x ELSE x
        tenths == RoundHalfEven(mag * 10, Scale)
    IN  (IF x < 0 THEN "-" ELSE "")
            \o ToString(tenths \div 10) \o "." \o ToString(tenths % 10) \o "%"

\* format(x, ".1%"): x * 100, fixed-point with one digit after the point, then "%"
PercentFormat(x) ==
    LET mag == IF x < 0 THEN -x ELSE x
        tenths == RoundHalfEven(mag * 100 * 10, Scale)
    IN  (IF x < 0 THEN "-" ELSE "")
            \o ToString(tenths \div 10) \o "." \o ToString(tenths % 10) \o "%"

\* the st.markdown result block: the template's fields, in order
ResultMarkdown(prediction, confidence, risk_score) ==
    LET tier == RiskLevel(risk_score)
    IN  El("markdown",
           <<"prediction-result", tier.risk_class,
             "Diagnosis: " \o prediction,
             "Risk Level: " \o tier.risk_level,
             "Confidence: " \o PercentFormat(confidence),
             "Risk Score: " \o PercentFormat(risk_score)>>)

\* RecommendationLines numbering from 0 (enumerate without its start)
RecommendationLines_zero_based(recommendations) ==
    [i \in 1..Len(recommendations) |->
        El("write", <<ToString(i - 1) \o ". " \o recommendations[i]>>)]

\* for i, rec in enumerate(recommendations, 1): st.write(f"{i}. {rec}")
RecommendationLines(recommendations) ==
    [i \in 1..Len(recommendations) |->
        El("write", <<ToString(i) \o ". " \o recommendations[i]>>)]

\* ExceptHandler without the st.info hint
ExceptHandler_no_hint(msg) ==
    <<El("error", <<"Error making prediction: " \o msg>>)>>

\* the except branch of the prediction
ExceptHandler(msg) ==
    <<El("error", <<"Error making prediction: " \o msg>>),
      El("info", <<"Make sure all dependencies are installed: pip install -r requirements.txt">>)>>

----------------------------------------------------------------------------
(* What the external ml_models functions may do *)

ResultKeys == {"prediction", "confidence", "risk_score", "recommendations"}

\* a value predict_diabetes returns: a dict (type "dict") with the keys `keys`,
\* or None; a *_type other than the expected one is a malformed field
WellFormed(prediction, confidence, risk_score, recommendations) ==
    [type |-> "dict", keys |-> ResultKeys, prediction |-> prediction,
     confidence |-> confidence, confidence_type |-> "float",
     risk_score |-> risk_score, risk_type |-> "float",
     recommendations |-> recommendations, recs_type |-> "list"]

BaseResult == WellFormed("Non-diabetic", 840, 300, <<"Maintain current diet">>)

Predictions == {"Diabetic", "Non-diabetic"}

RecTexts == {"A", "B"}

RecLists == UNION {[1..n -> RecTexts] : n \in 0..MaxRecs}

\* every recommendation list, and the scores at and around the thresholds and
\* the ends of [0, 1]
WellFormedResults ==
    {WellFormed(p, 840, 300, recs) : p \in Predictions, recs \in RecLists}
    \cup {WellFormed("Diabetic", c, r, <<"A">>) :
            c \in {0, 841, Scale},
            r \in {0 - OverRange, 0, MediumThreshold - 1, MediumThreshold,
                   HighThreshold - 1, HighThreshold, Scale, Scale + OverRange}}

\* each score alone over its whole range, and the risk_score beyond [0, 1]
ScoreResults ==
    {[BaseResult EXCEPT !.risk_score = r] : r \in (0 - OverRange)..(Scale + OverRange)}
    \cup {[BaseResult EXCEPT !.confidence = c] : c \in 0..Scale}

MalformedResults ==
    {[BaseResult EXCEPT !.keys = ResultKeys \ {k}] : k \in ResultKeys}
    \cup {[BaseResult EXCEPT !.type = "NoneType"],
          [BaseResult EXCEPT !.risk_type = "str"],
          [BaseResult EXCEPT !.confidence_type = "str"],
          [BaseResult EXCEPT !.recs_type = "NoneType"]}

\* what a call did: kind is "not_called", "NameError" (the name is unbound),
\* "raised" (msg is str(e)) or "returned" (result is the value)
Outcome(kind, msg, result) == [kind |-> kind, msg |-> msg, result |-> result]

\* the result field of an outcome that returned nothing
NoResult ==
    [type |-> "none", keys |-> {}, prediction |-> "", confidence |-> 0,
     confidence_type |-> "none", risk_score |-> 0, risk_type |-> "none",
     recommendations |-> <<>>, recs_type |-> "none"]

NotCalled == Outcome("not_called", "", NoResult)

PredictorOutcomes ==
    {Outcome("raised", m, NoResult) : m \in {"model not loaded", ""}}
    \cup {Outcome("returned", "", r) : r \in WellFormedResults \cup MalformedResults}

ScoreOutcomes == {Outcome("returned", "", r) : r \in ScoreResults}

SampleRecord == "sample_patient_record"

\* what create_sample_patient_data did: data is the record it returned
SampleOutcome(kind, data) == [kind |-> kind, data |-> data]

SampleNotCalled == SampleOutcome("not_called", "")

SampleOutcomes == {SampleOutcome("raised", ""), SampleOutcome("returned", SampleRecord)}

----------------------------------------------------------------------------
(* The render functions (lines 72-261) *)

\* one evaluated call expression of an ml_models function; entered is FALSE
\* when the name was unbound and the evaluation raised NameError
Call(fn, args, entered) == [fn |-> fn, args |-> args, entered |-> entered]

\* what a render function did: the elements it showed, the calls it evaluated
Done(elements, called) == [out |-> elements, calls |-> called]

\* the patient_data dict (lines 107-117); the other widgets keep their defaults
PatientData(fh) ==
    [age |-> 45, bmi |-> 25, glucose_level |-> 100, blood_pressure |-> 120,
     insulin_level |-> 80, family_history |-> IF fh = "Yes" THEN 1 ELSE 0,
     physical_activity |-> 3, diet_score |-> 3, stress_level |-> 3]

\* load_css and render_header
Header == <<El("markdown", <<"style">>), El("markdown", <<"main-header">>)>>

\* the try block of the Predict button (lines 121-159), left at the first
\* statement that raises, with everything shown before it left on the page
PredictBlock(e, fh, o) ==
    LET r == o.result
        bound == Bound(e, "predict_diabetes")
        called == <<Call("predict_diabetes", <<PatientData(fh)>>, bound)>>
        shown == <<ResultMarkdown(r.prediction, r.confidence, r.risk_score),
                   El("subheader", <<"Personalized Recommendations">>)>>
    IN  IF ~bound
        THEN Done(ExceptHandler("name 'predict_diabetes' is not defined"), called)
        ELSE IF o.kind = "raised"
        THEN Done(ExceptHandler(o.msg), called)
        ELSE IF r.type # "dict"
        THEN Done(ExceptHandler("'NoneType' object is not subscriptable"), called)
        ELSE IF "prediction" \notin r.keys
        THEN Done(ExceptHandler("'prediction'"), called)
        ELSE IF "confidence" \notin r.keys
        THEN Done(ExceptHandler("'confidence'"), called)
        ELSE IF "risk_score" \notin r.keys
        THEN Done(ExceptHandler("'risk_score'"), called)
        ELSE IF r.risk_type # "float"
        THEN Done(ExceptHandler("'>=' not supported between instances of 'str' and 'float'"),
                  called)
        ELSE IF r.confidence_type # "float"
        THEN Done(ExceptHandler("Unknown format code '%' for object of type 'str'"), called)
        ELSE IF "recommendations" \notin r.keys
        THEN Done(shown, called)
        ELSE IF r.recs_type # "list"
        THEN Done(shown \o ExceptHandler("'NoneType' object is not iterable"), called)
        ELSE Done(shown \o RecommendationLines(r.recommendations), called)

\* render_diabetes_predictor running the prediction on every render, without
\* the `if st.button(...)`
render_diabetes_predictor_no_button(e, fh, btn, o) ==
    LET block == PredictBlock(e, fh, o)
    IN  Done(<<El("header", <<"Diabetes Risk Prediction">>),
               El("selectbox", <<"Family History of Diabetes", fh>>),
               El("button", <<PredictLabel>>)>> \o block.out,
             block.calls)

render_diabetes_predictor(e, fh, btn, o) ==
    LET widgets ==
            <<El("header", <<"Diabetes Risk Prediction">>),
              El("subheader", <<"Patient Information">>),
              El("number_input", <<"Age (years)">>),
              El("number_input", <<"BMI">>),
              El("number_input", <<"Glucose Level (mg/dL)">>),
              El("number_input", <<"Blood Pressure (systolic)">>),
              El("number_input", <<"Insulin Level">>),
              El("subheader", <<"Lifestyle Factors">>),
              El("selectbox", <<"Family History of Diabetes", fh>>),
              El("slider", <<"Physical Activity Level">>),
              El("slider", <<"Diet Quality Score">>),
              El("slider", <<"Stress Level">>),
              El("button", <<PredictLabel>>)>>
        block == PredictBlock(e, fh, o)
    IN  IF btn = "predict"
        THEN Done(widgets \o block.out, block.calls)
        ELSE Done(widgets, <<>>)

\* AnalysisSummary reporting the uploaded file's name as the document type
AnalysisSummary_named(file) ==
    El("markdown",
       <<"feature-card", "Analysis Summary",
         "Document Type: " \o file.name,
         "Key Findings: Normal glucose levels, slightly elevated blood pressure",
         "Critical Alerts: None detected",
         "Recommendations: Regular monitoring suggested">>)

\* the placeholder summary (lines 179-187)
AnalysisSummary(file) ==
    El("markdown",
       <<"feature-card", "Analysis Summary",
         "Document Type: Medical Report",
         "Key Findings: Normal glucose levels, slightly elevated blood pressure",
         "Critical Alerts: None detected",
         "Recommendations: Regular monitoring suggested">>)

NoFile == [name |-> "", content |-> ""]

render_document_analyzer(file, btn) ==
    LET widgets ==
            <<El("header", <<"Medical Document Analysis">>),
              El("info", <<"Note: Document analysis feature requires OpenAI API key. This is a placeholder interface.">>),
              El("file_uploader", <<"Upload Medical Document">>)>>
        uploaded ==
            <<El("success", <<"File '" \o file.name \o "' uploaded successfully!">>),
              El("button", <<AnalyzeLabel>>)>>
    IN  IF file = NoFile
        THEN Done(widgets, <<>>)
        ELSE IF btn = "analyze"
        THEN Done(widgets \o uploaded \o <<AnalysisSummary(file)>>, <<>>)
        ELSE Done(widgets \o uploaded, <<>>)

\* SampleBlock with `except: pass`: a failure shows nothing
SampleBlock_silent(e, s) ==
    LET bound == Bound(e, "create_sample_patient_data")
        called == <<Call("create_sample_patient_data", <<>>, bound)>>
    IN  IF bound /\ s.kind = "returned"
        THEN Done(<<El("json", <<s.data>>)>>, called)
        ELSE Done(<<>>, called)

\* the try/except of the sample-data button (lines 208-213)
SampleBlock(e, s) ==
    LET bound == Bound(e, "create_sample_patient_data")
        called == <<Call("create_sample_patient_data", <<>>, bound)>>
    IN  IF bound /\ s.kind = "returned"
        THEN Done(<<El("json", <<s.data>>)>>, called)
        ELSE Done(<<El("error", <<"Sample data not available">>)>>, called)

\* render_sidebar: the elements up to `return page`
render_sidebar(e, pg, btn, s) ==
    LET widgets ==
            <<El("header", <<"Navigation">>),
              El("radio", <<"Select Feature:", pg>>),
              El("markdown", <<"---">>),
              El("header", <<"Quick Stats">>),
              El("metric", <<"Model Accuracy", "84%">>),
              El("metric", <<"Features Used", "9">>),
              El("metric", <<"Training Data", "1,000 records">>),
              El("markdown", <<"---">>),
              El("button", <<SampleLabel>>)>>
        block == SampleBlock(e, s)
    IN  IF btn = "sample"
        THEN Done(widgets \o block.out, block.calls)
        ELSE Done(widgets, <<>>)

render_about_page ==
    <<El("header", <<"About Medical Data Analyzer">>),
      El("markdown", <<"feature-card", "Purpose">>),
      El("markdown", <<"feature-card", "Technology">>),
      El("markdown", <<"feature-card", "Features">>),
      El("markdown", <<"feature-card", "Privacy">>)>>

\* main(): the header, the sidebar, then the page the radio selects
main(e, pg, fh, file, btn, o, s) ==
    LET side == render_sidebar(e, pg, btn, s)
        body == IF pg = DiabetesPage THEN render_diabetes_predictor(e, fh, btn, o)
                ELSE IF pg = DocumentPage THEN render_document_analyzer(file, btn)
                ELSE Done(render_about_page, <<>>)
    IN  Done(Header \o side.out \o body.out, side.calls \o body.calls)

\* one run of the script: the import (lines 12-15), then main(); an exception
\* the import does not catch ends the run before anything is rendered
Script(e, pg, fh, file, btn, o, s) ==
    IF ImportCrashes(e)
    THEN [out |-> <<El("exception", <<"ml_models">>)>>, calls |-> <<>>, uncaught |-> TRUE]
    ELSE LET m == main(e, pg, fh, file, btn, o, s)
         IN  [out |-> ImportNotice(e) \o m.out, calls |-> m.calls, uncaught |-> FALSE]

----------------------------------------------------------------------------
(* The state machine: one action is one run of the script *)

Files == {[name |-> n, content |-> c] : n \in {"report.pdf", "notes.txt"}, c \in {"x", "y"}}

FamilyHistoryOptions == {"No", "Yes"}

\* what the predictor did in a run, read off the calls the run evaluated
PredictedIn(called, o) ==
    IF \E i \in 1..Len(called) : called[i].fn = "predict_diabetes" /\ called[i].entered
    THEN o
    ELSE IF \E i \in 1..Len(called) : called[i].fn = "predict_diabetes"
    THEN Outcome("NameError", "name 'predict_diabetes' is not defined", NoResult)
    ELSE NotCalled

SampledIn(called, s) ==
    IF \E i \in 1..Len(called) : called[i].fn = "create_sample_patient_data" /\ called[i].entered
    THEN s
    ELSE IF \E i \in 1..Len(called) : called[i].fn = "create_sample_patient_data"
    THEN SampleOutcome("NameError", "")
    ELSE SampleNotCalled

\* a run of the script with the widget values pg, fh, file and the button btn
Pass(pg, fh, file, btn, o, s) ==
    LET r == Script(env, pg, fh, file, btn, o, s)
    IN  /\ page' = pg
        /\ family_history' = fh
        /\ uploaded_file' = file
        /\ pressed' = btn
        /\ out' = r.out
        /\ calls' = r.calls
        /\ uncaught' = r.uncaught
        /\ predicted' = PredictedIn(r.calls, o)
        /\ sampled' = SampledIn(r.calls, s)
        /\ UNCHANGED env

\* the first run of a session: every widget at its default, no button pressed
Init ==
    /\ env \in Envs
    /\ page = DiabetesPage
    /\ family_history = "No"
    /\ uploaded_file = NoFile
    /\ pressed = "none"
    /\ predicted = NotCalled
    /\ sampled = SampleNotCalled
    /\ LET r == Script(env, DiabetesPage, "No", NoFile, "none", NotCalled, SampleNotCalled)
       IN  out = r.out /\ calls = r.calls /\ uncaught = r.uncaught

\* the browser reloads the page: a new session
Reload ==
    Pass(DiabetesPage, "No", NoFile, "none", NotCalled, SampleNotCalled)

\* the radio changes; widgets that are not rendered lose their values
SelectPage ==
    \E p \in Pages \ {page} :
        /\ HasElement(out, El("radio", <<"Select Feature:", page>>))
        /\ Pass(p, "No", NoFile, "none", NotCalled, SampleNotCalled)

SetFamilyHistory ==
    \E v \in FamilyHistoryOptions \ {family_history} :
        /\ HasElement(out, El("selectbox", <<"Family History of Diabetes", family_history>>))
        /\ Pass(page, v, uploaded_file, "none", NotCalled, SampleNotCalled)

UploadFile ==
    \E f \in (Files \cup {NoFile}) \ {uploaded_file} :
        /\ HasElement(out, El("file_uploader", <<"Upload Medical Document">>))
        /\ Pass(page, family_history, f, "none", NotCalled, SampleNotCalled)

PressPredict ==
    /\ HasElement(out, El("button", <<PredictLabel>>))
    /\ \E o \in PredictorOutcomes :
          Pass(page, family_history, uploaded_file, "predict", o, SampleNotCalled)

PressSample ==
    \E s \in SampleOutcomes :
        /\ HasElement(out, El("button", <<SampleLabel>>))
        /\ Pass(page, family_history, uploaded_file, "sample", NotCalled, s)

PressAnalyze ==
    /\ HasElement(out, El("button", <<AnalyzeLabel>>))
    /\ Pass(page, family_history, uploaded_file, "analyze", NotCalled, SampleNotCalled)

Next ==
    \/ Reload
    \/ SelectPage
    \/ SetFamilyHistory
    \/ UploadFile
    \/ PressPredict
    \/ PressSample
    \/ PressAnalyze

Spec == Init /\ [][Next]_vars

\* Sessions of one Predict press, the predictor returning every score: the
\* press is the first interaction after the page loads
PressPredictScores ==
    /\ pressed = "none"
    /\ HasElement(out, El("button", <<PredictLabel>>))
    /\ \E o \in ScoreOutcomes :
          Pass(page, family_history, uploaded_file, "predict", o, SampleNotCalled)

NextScores ==
    \/ Reload
    \/ PressPredictScores

SpecScores == Init /\ [][NextScores]_vars

----------------------------------------------------------------------------
(* What a pass shows: the parts of the page the properties below speak of *)

IsResultBlock(el) == el.kind = "markdown" /\ el.text[1] = "prediction-result"

ResultBlockAt == {i \in 1..Len(out) : IsResultBlock(out[i])}

TheResultBlock == out[CHOOSE i \in ResultBlockAt : TRUE]

IsWrite(el) == el.kind = "write"

RecommendationsShown == SelectSeq(out, IsWrite)

HintInfo ==
    El("info", <<"Make sure all dependencies are installed: pip install -r requirements.txt">>)

SampleNotice == El("error", <<"Sample data not available">>)

MissingDependenciesNotice ==
    El("error", <<"Missing dependencies. Please run: pip install -r requirements.txt">>)

\* an error notice of the prediction: an st.error that is neither of the others
PredictionErrorAt ==
    {i \in 1..Len(out) :
        out[i].kind = "error" /\ out[i] \notin {SampleNotice, MissingDependenciesNotice}}

\* some part of the display bundle is on the page
BundlePartShown ==
    \/ ResultBlockAt # {}
    \/ HasElement(out, El("subheader", <<"Personalized Recommendations">>))
    \/ RecommendationsShown # <<>>

\* the predictor returned a PredictionResult with every field of its type
ReturnedWellFormed ==
    /\ pressed = "predict"
    /\ predicted.kind = "returned"
    /\ predicted.result.type = "dict"
    /\ predicted.result.keys = ResultKeys
    /\ predicted.result.confidence_type = "float"
    /\ predicted.result.risk_type = "float"
    /\ predicted.result.recs_type = "list"

\* v/1000 as a percentage with one decimal: v/10 percent
OneDecimalPercent(v) == ToString(v \div 10) \o "." \o ToString(v % 10) \o "%"

----------------------------------------------------------------------------
(* C1: for every risk_score in [0, 1] the predictor returns, the page shows
   exactly one tier: Low Risk below 0.4, Medium Risk from 0.4 up to but not
   including 0.7, High Risk from 0.7 on; 0.4 is Medium and 0.7 is High. *)
C1_TierByThreshold ==
    (ReturnedWellFormed /\ predicted.result.risk_score \in 0..Scale) =>
        LET rs == predicted.result.risk_score
        IN  /\ Cardinality(ResultBlockAt) = 1
            /\ TheResultBlock.text[4] =
                 (IF 10 * rs < 4 * Scale THEN "Risk Level: Low Risk"
                  ELSE IF 10 * rs < 7 * Scale THEN "Risk Level: Medium Risk"
                  ELSE "Risk Level: High Risk")
            /\ (rs = 400 => TheResultBlock.text[4] = "Risk Level: Medium Risk")
            /\ (rs = 700 => TheResultBlock.text[4] = "Risk Level: High Risk")

C1_Witness ==
    /\ ReturnedWellFormed
    /\ predicted.result.risk_score = 700
    /\ ResultBlockAt # {}
    /\ TheResultBlock.text[4] = "Risk Level: High Risk"

(* C5: confidence and risk_score are shown as value * 100 with exactly one
   decimal digit and "%": 0.841 is "84.1%", 1.0 is "100.0%", 0.0 is "0.0%",
   0.3 is "30.0%"; the diagnosis string is shown unchanged. *)
C5_PercentOneDecimal ==
    ReturnedWellFormed =>
        LET r == predicted.result
            b == TheResultBlock
        IN  /\ ResultBlockAt # {}
            /\ b.text[3] = "Diagnosis: " \o r.prediction
            /\ (r.confidence \in 0..Scale =>
                    b.text[5] = "Confidence: " \o OneDecimalPercent(r.confidence))
            /\ (r.risk_score \in 0..Scale =>
                    b.text[6] = "Risk Score: " \o OneDecimalPercent(r.risk_score))
            /\ (r.confidence = 841 => b.text[5] = "Confidence: 84.1%")
            /\ (r.confidence = 1000 => b.text[5] = "Confidence: 100.0%")
            /\ (r.confidence = 0 => b.text[5] = "Confidence: 0.0%")
            /\ (r.risk_score = 300 => b.text[6] = "Risk Score: 30.0%")

C5_Witness ==
    /\ ReturnedWellFormed
    /\ predicted.result.confidence = 841
    /\ ResultBlockAt # {}
    /\ TheResultBlock.text[5] = "Confidence: 84.1%"

(* C9, as stated: the classifier returns a tier for every score in [0, 1] and
   rejects a score below 0 or above 1, producing no tier. *)
C9_RejectsOutOfRange ==
    ReturnedWellFormed =>
        IF predicted.result.risk_score \in 0..Scale
        THEN ResultBlockAt # {} /\ PredictionErrorAt = {}
        ELSE ResultBlockAt = {} /\ PredictionErrorAt # {}

(* C9, amended: the classifier has no failure mode. For every numeric score,
   in [0, 1] or not, it returns exactly one tier and no error: a score below
   0 is Low Risk and a score above 1 is High Risk. *)
C9_TotalClassifier ==
    ReturnedWellFormed =>
        LET rs == predicted.result.risk_score
        IN  /\ Cardinality(ResultBlockAt) = 1
            /\ PredictionErrorAt = {}
            /\ TheResultBlock.text[4] \in
                 {"Risk Level: Low Risk", "Risk Level: Medium Risk", "Risk Level: High Risk"}
            /\ (rs < 0 => TheResultBlock.text[4] = "Risk Level: Low Risk")
            /\ (rs > Scale => TheResultBlock.text[4] = "Risk Level: High Risk")

C9_Witness ==
    /\ ReturnedWellFormed
    /\ predicted.result.risk_score > Scale
    /\ ResultBlockAt # {}
    /\ TheResultBlock.text[4] = "Risk Level: High Risk"

(* C2: when Predict is pressed and the call of predict_diabetes fails (it
   raises, or the name is unbound), the call expression is evaluated exactly
   once in that pass, the error notice with str(e) and then the
   dependency-installation hint are shown, and no part of the display bundle
   is shown. *)
C2_FailedCallOnceErrorNoBundle ==
    (pressed = "predict" /\ predicted.kind \in {"raised", "NameError"}) =>
        /\ Cardinality({i \in 1..Len(calls) : calls[i].fn = "predict_diabetes"}) = 1
        /\ Cardinality(PredictionErrorAt) = 1
        /\ \A i \in PredictionErrorAt :
              /\ out[i] = El("error", <<"Error making prediction: " \o predicted.msg>>)
              /\ i < Len(out)
              /\ out[i + 1] = HintInfo
        /\ ~BundlePartShown

C2_Witness ==
    /\ pressed = "predict"
    /\ predicted.kind = "raised"
    /\ predicted.msg = "model not loaded"
    /\ HasElement(out, El("error", <<"Error making prediction: model not loaded">>))
    /\ HasElement(out, HintInfo)

(* C3: in every pass in which Predict is pressed, whatever the predictor
   returns or raises, the page holds either the complete display bundle (the
   result block and every numbered recommendation) and no error notice, or an
   error notice and no part of the display bundle. *)
C3_NoPartialResults ==
    pressed = "predict" =>
        \/ /\ Cardinality(ResultBlockAt) = 1
           /\ HasElement(out, El("subheader", <<"Personalized Recommendations">>))
           /\ predicted.kind = "returned"
           /\ ("recommendations" \in predicted.result.keys =>
                   /\ predicted.result.recs_type = "list"
                   /\ Len(RecommendationsShown) = Len(predicted.result.recommendations))
           /\ PredictionErrorAt = {}
        \/ /\ PredictionErrorAt # {}
           /\ ~BundlePartShown

(* C4: the recommendation lines are as many as the recommendations returned,
   line k is "k. " followed by the k-th recommendation, counting from 1, in
   the order returned and with its duplicates: <<"A", "B">> gives "1. A" and
   "2. B". *)
C4_NumberedInOrder ==
    ReturnedWellFormed =>
        LET recs == predicted.result.recommendations
            lines == RecommendationsShown
        IN  /\ Len(lines) = Len(recs)
            /\ \A k \in 1..Len(recs) : lines[k].text = <<ToString(k) \o ". " \o recs[k]>>
            /\ (recs = <<"A", "B">> =>
                    lines = <<El("write", <<"1. A">>), El("write", <<"2. B">>)>>)

C4_Witness ==
    /\ ReturnedWellFormed
    /\ predicted.result.recommendations = <<"B", "B", "A">>
    /\ RecommendationsShown =
          <<El("write", <<"1. B">>), El("write", <<"2. B">>), El("write", <<"3. A">>)>>

\* the calls of ml_models functions the last pass evaluated
CallsOf(fn) == SelectSeq(calls, LAMBDA c : c.fn = fn)

(* C6, as stated: the render pass of every button press makes exactly one
   call into the Predictor (an ml_models function), and a pass without a
   press makes none. *)
C6_OneCallPerPress ==
    /\ (pressed \in Buttons => Len(calls) = 1)
    /\ (pressed = "none" => calls = <<>>)

(* C6, amended: the pass of a Predict press evaluates exactly one call of
   predict_diabetes, with the patient data of that pass, and no other; the
   pass of a sample-data press evaluates exactly one call of
   create_sample_patient_data and no other; the pass of an Analyze Document
   press and a pass without a press evaluate no call. A call enters the
   function exactly when the import bound its name. Nothing of an earlier
   pass is among the calls. *)
C6_CallsOfThePress ==
    /\ (pressed = "predict" =>
            /\ Len(calls) = 1
            /\ calls[1].fn = "predict_diabetes"
            /\ calls[1].args =
                 <<[age |-> 45, bmi |-> 25, glucose_level |-> 100, blood_pressure |-> 120,
                    insulin_level |-> 80,
                    family_history |-> IF family_history = "Yes" THEN 1 ELSE 0,
                    physical_activity |-> 3, diet_score |-> 3, stress_level |-> 3]>>
            /\ calls[1].entered =
                 (env.module = "ok" /\ "predict_diabetes" \in env.exports))
    /\ (pressed = "sample" =>
            /\ Len(calls) = 1
            /\ calls[1].fn = "create_sample_patient_data"
            /\ calls[1].entered =
                 (env.module = "ok" /\ env.exports =
                    {"predict_diabetes", "create_sample_patient_data"}))
    /\ (pressed \in {"analyze", "none"} => calls = <<>>)

C6_Witness ==
    /\ pressed = "predict"
    /\ family_history = "Yes"
    /\ Len(CallsOf("predict_diabetes")) = 1
    /\ calls[1].entered
    /\ calls[1].args[1].family_history = 1

\* the placeholder summaries on the page
SummaryAt ==
    {i \in 1..Len(out) :
        /\ out[i].kind = "markdown"
        /\ Len(out[i].text) >= 2
        /\ out[i].text[1] = "feature-card"
        /\ out[i].text[2] = "Analysis Summary"}

(* C7: the document-analysis summary does not depend on the uploaded file:
   whatever the file's name and content, pressing Analyze Document shows the
   same document type, key findings, critical alerts and recommendation; and
   a summary is shown only when a file is uploaded and Analyze Document is
   pressed. *)
C7_SummaryIndependentOfFile ==
    /\ (SummaryAt # {} =>
            /\ uploaded_file # NoFile
            /\ pressed = "analyze"
            /\ page = DocumentPage)
    /\ (pressed = "analyze" =>
            /\ Cardinality(SummaryAt) = 1
            /\ \A i \in SummaryAt :
                  /\ out[i].text =
                       <<"feature-card", "Analysis Summary",
                         "Document Type: Medical Report",
                         "Key Findings: Normal glucose levels, slightly elevated blood pressure",
                         "Critical Alerts: None detected",
                         "Recommendations: Regular monitoring suggested">>
                  /\ \A f \in Files : out[i] = AnalysisSummary(f))

C7_Witness ==
    /\ pressed = "analyze"
    /\ uploaded_file = [name |-> "notes.txt", content |-> "y"]
    /\ SummaryAt # {}

\* the header of the page the radio selects
PageHeader ==
    IF page = DiabetesPage THEN El("header", <<"Diabetes Risk Prediction">>)
    ELSE IF page = DocumentPage THEN El("header", <<"Medical Document Analysis">>)
    ELSE El("header", <<"About Medical Data Analyzer">>)

(* C8: when the sample-data button is pressed and create_sample_patient_data
   fails (it raises, or the name is undefined), "Sample data not available"
   is shown, no sample record is shown, the pass ends without an uncaught
   exception and the selected page is rendered; when it succeeds the sample
   record is shown and the notice is not. *)
C8_SampleFailureNoticed ==
    pressed = "sample" =>
        /\ ~uncaught
        /\ HasElement(out, PageHeader)
        /\ IF sampled.kind = "returned"
           THEN /\ HasElement(out, El("json", <<sampled.data>>))
                /\ ~HasElement(out, SampleNotice)
           ELSE /\ sampled.kind \in {"raised", "NameError"}
                /\ Cardinality({i \in 1..Len(out) : out[i] = SampleNotice}) = 1
                /\ \A i \in 1..Len(out) : out[i].kind # "json"

C8_Witness ==
    /\ pressed = "sample"
    /\ sampled.kind = "NameError"
    /\ page = AboutPage
    /\ HasElement(out, SampleNotice)
    /\ HasElement(out, PageHeader)

\* the import statement raised ImportError
ImportFailed ==
    \/ env.module = "missing"
    \/ env.module = "ok" /\ env.exports # {"predict_diabetes", "create_sample_patient_data"}

(* C10, as stated: once the import of ml_models has failed with ImportError,
   every Predict press ends in the prediction error notice with the
   dependency hint and never in a display bundle, every sample-data press
   ends in "Sample data not available", and no pass ends in an uncaught
   exception. *)
C10_ImportFailureDisablesBoth ==
    ImportFailed =>
        /\ ~uncaught
        /\ HasElement(out, MissingDependenciesNotice)
        /\ (pressed = "predict" =>
                /\ PredictionErrorAt # {}
                /\ HasElement(out, HintInfo)
                /\ ~BundlePartShown)
        /\ (pressed = "sample" => HasElement(out, SampleNotice))

(* C10, amended: once the import of ml_models has failed with ImportError, no
   pass ends in an uncaught exception and every sample-data press ends in
   "Sample data not available". A Predict press ends in the prediction error
   notice with the dependency hint, and never in a display bundle, when the
   import left predict_diabetes unbound (the module is missing or does not
   define it); when the module lacks only create_sample_patient_data,
   predict_diabetes is bound, the press calls it, and what it returns is
   displayed. *)
C10_ImportFailureByName ==
    ImportFailed =>
        /\ ~uncaught
        /\ HasElement(out, MissingDependenciesNotice)
        /\ (pressed = "sample" =>
                /\ HasElement(out, SampleNotice)
                /\ \A i \in 1..Len(out) : out[i].kind # "json")
        /\ ((pressed = "predict" /\ ~(env.module = "ok" /\ "predict_diabetes" \in env.exports)) =>
                /\ predicted.kind = "NameError"
                /\ PredictionErrorAt # {}
                /\ HasElement(out, HintInfo)
                /\ ~BundlePartShown)
        /\ ((pressed = "predict" /\ env.module = "ok" /\ "predict_diabetes" \in env.exports) =>
                /\ predicted.kind \in {"raised", "returned"}
                /\ (ReturnedWellFormed => ResultBlockAt # {} /\ PredictionErrorAt = {}))

C10_Witness ==
    /\ ImportFailed
    /\ env.exports = {"predict_diabetes"}
    /\ ReturnedWellFormed
    /\ ResultBlockAt # {}
    /\ PredictionErrorAt = {}

====
